---- MODULE Spec2Model ----
(***************************************************************************)
(* Model of the sixarm collections crate: the two multi-maps               *)
(* (BTreeMapToSet, HashMapToSet) and the two file-length path indexes      *)
(* (BTreeMapOfFileLenToSetOfPathBuf, HashMapOfFileLenToSetOfPathBuf).      *)
(*                                                                         *)
(* A map of sets is a function whose DOMAIN is the set of keys present and *)
(* whose values are sets.  Each behaviour drives ONE subject collection,   *)
(* of one of the four types, through the three operations of its trait.    *)
(* The filesystem is the partial function `files` from path to byte        *)
(* length; a path outside its DOMAIN has no queryable metadata.            *)
(***************************************************************************)
EXTENDS Integers, FiniteSets, Sequences, TLC

\* Bounds of the model.
MaxKey == 2
MaxValue == 2
MaxLen == 1

Keys == 1..MaxKey
Values == 1..MaxValue
Lens == 0..MaxLen
Paths == {"alpha.txt", "bravo.txt"}

Components == {"BTreeMapToSet", "HashMapToSet",
               "BTreeMapOfFileLenToSetOfPathBuf", "HashMapOfFileLenToSetOfPathBuf"}

VARIABLES
    component,    \* which of the four collection types the subject is
    subject,      \* the collection: key -> set of values
    files,        \* the filesystem: path -> byte length (existing paths only)
    halted,       \* TRUE once a call has panicked (the calling thread unwinds)
    last,         \* history: the most recent call, its result and the map before it
    prev_insert,  \* history: <<k, v>> if the call before `last` was sub_insert(k, v), else << >>
    ever_keys,    \* history: the keys some insert has been called with
    scenario      \* history: what has been done to a path index so far

vars == <<component, subject, files, halted, last, prev_insert, ever_keys, scenario>>

\* Option values: Some(x) is <<x>>, None is << >>.
Some(x) == <<x>>
None == << >>

EmptyMap == [k \in {} |-> {}]

(***************************************************************************)
(* BTreeMapToSet                                                           *)
(***************************************************************************)

\* self.get(key) { Some(set) => set.contains(value), None => false }
BTree_sub_contains(self, key, value) ==
    IF key \in DOMAIN self
    THEN [ret |-> value \in self[key], self |-> self]
    ELSE [ret |-> FALSE, self |-> self]

\* A sub_insert that creates the key's set but drops the value of a new key.
BTree_sub_insert_DropOnNewKey(self, key, value) ==
    IF key \in DOMAIN self
    THEN [ret |-> value \notin self[key],
          self |-> [self EXCEPT ![key] = @ \cup {value}]]
    ELSE [ret |-> TRUE, self |-> self @@ (key :> {})]

\* A sub_insert that reports whether the KEY was new (map-insert semantics)
\* instead of whether the value was.
BTree_sub_insert_ReturnsKeyNew(self, key, value) ==
    LET entry == IF key \in DOMAIN self THEN self ELSE self @@ (key :> {})
    IN  [ret |-> key \notin DOMAIN self,
         self |-> [entry EXCEPT ![key] = @ \cup {value}]]

\* self.entry(key).or_insert(BTreeSet::new()).insert(value)
BTree_sub_insert(self, key, value) ==
    LET entry == IF key \in DOMAIN self THEN self ELSE self @@ (key :> {})
    IN  [ret |-> value \notin entry[key],
         self |-> [entry EXCEPT ![key] = @ \cup {value}]]

\* A sub_remove written with the entry API: it creates the key it looks up.
BTree_sub_remove_ViaEntry(self, key, value) ==
    LET entry == IF key \in DOMAIN self THEN self ELSE self @@ (key :> {})
    IN  [ret |-> value \in entry[key],
         self |-> [entry EXCEPT ![key] = @ \ {value}]]

\* self.get_mut(key) { Some(set) => set.remove(&value), None => false }
BTree_sub_remove(self, key, value) ==
    IF key \in DOMAIN self
    THEN [ret |-> value \in self[key],
          self |-> [self EXCEPT ![key] = @ \ {value}]]
    ELSE [ret |-> FALSE, self |-> self]

(***************************************************************************)
(* HashMapToSet                                                            *)
(***************************************************************************)

\* A sub_contains written with the entry API: it creates the key it looks up.
Hash_sub_contains_ViaEntry(self, key, value) ==
    LET entry == IF key \in DOMAIN self THEN self ELSE self @@ (key :> {})
    IN  [ret |-> value \in entry[key], self |-> entry]

\* self.get(key) { Some(set) => set.contains(value), None => false }
Hash_sub_contains(self, key, value) ==
    IF key \in DOMAIN self
    THEN [ret |-> value \in self[key], self |-> self]
    ELSE [ret |-> FALSE, self |-> self]

\* A sub_insert that always reports success.
Hash_sub_insert_AlwaysTrue(self, key, value) ==
    LET entry == IF key \in DOMAIN self THEN self ELSE self @@ (key :> {})
    IN  [ret |-> TRUE,
         self |-> [entry EXCEPT ![key] = @ \cup {value}]]

\* A sub_insert that replaces the key's set (self.insert(key, {value}))
\* instead of adding to it.
Hash_sub_insert_Replace(self, key, value) ==
    [ret |-> ~(key \in DOMAIN self /\ value \in self[key]),
     self |-> [k \in DOMAIN self \cup {key} |-> IF k = key THEN {value} ELSE self[k]]]

\* self.entry(key).or_insert(HashSet::new()).insert(value)
Hash_sub_insert(self, key, value) ==
    LET entry == IF key \in DOMAIN self THEN self ELSE self @@ (key :> {})
    IN  [ret |-> value \notin entry[key],
         self |-> [entry EXCEPT ![key] = @ \cup {value}]]

\* A sub_remove that tests membership (set.contains) where it should remove.
Hash_sub_remove_ContainsOnly(self, key, value) ==
    IF key \in DOMAIN self
    THEN [ret |-> value \in self[key], self |-> self]
    ELSE [ret |-> FALSE, self |-> self]

\* self.get_mut(key) { Some(set) => set.remove(&value), None => false }
Hash_sub_remove(self, key, value) ==
    IF key \in DOMAIN self
    THEN [ret |-> value \in self[key],
          self |-> [self EXCEPT ![key] = @ \ {value}]]
    ELSE [ret |-> FALSE, self |-> self]

(***************************************************************************)
(* The filesystem                                                          *)
(***************************************************************************)

\* fs::metadata(&value) then .len(): Some(length), or None when the metadata
\* query fails (missing file, permission denied, broken symlink).
fs_metadata_len(fs, value) ==
    IF value \in DOMAIN fs THEN Some(fs[value]) ELSE None

(***************************************************************************)
(* BTreeMapOfFileLenToSetOfPathBuf                                         *)
(***************************************************************************)

\* .expect("metadata") on a failed query: the call panics, nothing is returned.
Panic(self) == [outcome |-> "panic", ret |-> None, self |-> self]

Returned(ret, self) == [outcome |-> "returned", ret |-> Some(ret), self |-> self]

\* A sub_contains_path that only looks for a non-empty bucket of the file's
\* length and never tests the path itself.
BTree_sub_contains_path_BucketOnly(self, fs, value) ==
    LET md == fs_metadata_len(fs, value) IN
    IF md = None THEN Panic(self)
    ELSE LET key == md[1] IN
         IF key \in DOMAIN self
         THEN Returned(self[key] # {}, self)
         ELSE Returned(FALSE, self)

\* fs::metadata(&value).expect("metadata").len(), then as sub_contains
BTree_sub_contains_path(self, fs, value) ==
    LET md == fs_metadata_len(fs, value) IN
    IF md = None THEN Panic(self)
    ELSE LET key == md[1] IN
         IF key \in DOMAIN self
         THEN Returned(value \in self[key], self)
         ELSE Returned(FALSE, self)

\* fs::metadata(&value).expect("metadata").len(), then as sub_insert
BTree_sub_insert_path(self, fs, value) ==
    LET md == fs_metadata_len(fs, value) IN
    IF md = None THEN Panic(self)
    ELSE LET key == md[1]
             entry == IF key \in DOMAIN self THEN self ELSE self @@ (key :> {})
         IN  Returned(value \notin entry[key],
                      [entry EXCEPT ![key] = @ \cup {value}])

\* A sub_remove_path that takes the path out of whichever bucket holds it,
\* not only the bucket of the file's present length.
BTree_sub_remove_path_AnyBucket(self, fs, value) ==
    LET md == fs_metadata_len(fs, value) IN
    IF md = None THEN Panic(self)
    ELSE Returned(\E k \in DOMAIN self : value \in self[k],
                  [k \in DOMAIN self |-> self[k] \ {value}])

\* A sub_remove_path that prunes the bucket it has emptied.
BTree_sub_remove_path_Prune(self, fs, value) ==
    LET md == fs_metadata_len(fs, value) IN
    IF md = None THEN Panic(self)
    ELSE LET key == md[1] IN
         IF key \in DOMAIN self
         THEN Returned(value \in self[key],
                       IF self[key] \ {value} = {}
                       THEN [k \in DOMAIN self \ {key} |-> self[k]]
                       ELSE [self EXCEPT ![key] = @ \ {value}])
         ELSE Returned(FALSE, self)

\* fs::metadata(&value).expect("metadata").len(), then as sub_remove
BTree_sub_remove_path(self, fs, value) ==
    LET md == fs_metadata_len(fs, value) IN
    IF md = None THEN Panic(self)
    ELSE LET key == md[1] IN
         IF key \in DOMAIN self
         THEN Returned(value \in self[key], [self EXCEPT ![key] = @ \ {value}])
         ELSE Returned(FALSE, self)

(***************************************************************************)
(* HashMapOfFileLenToSetOfPathBuf                                          *)
(***************************************************************************)

\* A sub_contains_path that trusts the length the path was inserted under
\* (a cached key) before it looks at the file's present length.
Hash_sub_contains_path_CachedLen(self, fs, value) ==
    LET md == fs_metadata_len(fs, value) IN
    IF md = None THEN Panic(self)
    ELSE LET key == md[1] IN
         IF \E k \in DOMAIN self : value \in self[k]
         THEN Returned(TRUE, self)
         ELSE Returned(FALSE, self)

Hash_sub_contains_path(self, fs, value) ==
    LET md == fs_metadata_len(fs, value) IN
    IF md = None THEN Panic(self)
    ELSE LET key == md[1] IN
         IF key \in DOMAIN self
         THEN Returned(value \in self[key], self)
         ELSE Returned(FALSE, self)

\* A sub_insert_path that takes length 0 when the metadata query fails
\* (unwrap_or_default in place of expect).
Hash_sub_insert_path_DefaultLen(self, fs, value) ==
    LET md == fs_metadata_len(fs, value)
        key == IF md = None THEN 0 ELSE md[1]
        entry == IF key \in DOMAIN self THEN self ELSE self @@ (key :> {})
    IN  Returned(value \notin entry[key],
                 [entry EXCEPT ![key] = @ \cup {value}])

Hash_sub_insert_path(self, fs, value) ==
    LET md == fs_metadata_len(fs, value) IN
    IF md = None THEN Panic(self)
    ELSE LET key == md[1]
             entry == IF key \in DOMAIN self THEN self ELSE self @@ (key :> {})
         IN  Returned(value \notin entry[key],
                      [entry EXCEPT ![key] = @ \cup {value}])

\* A sub_remove_path that purges a path whose file has vanished from every
\* bucket before it panics.
Hash_sub_remove_path_PurgeOnFailure(self, fs, value) ==
    LET md == fs_metadata_len(fs, value) IN
    IF md = None THEN Panic([k \in DOMAIN self |-> self[k] \ {value}])
    ELSE LET key == md[1] IN
         IF key \in DOMAIN self
         THEN Returned(value \in self[key], [self EXCEPT ![key] = @ \ {value}])
         ELSE Returned(FALSE, self)

Hash_sub_remove_path(self, fs, value) ==
    LET md == fs_metadata_len(fs, value) IN
    IF md = None THEN Panic(self)
    ELSE LET key == md[1] IN
         IF key \in DOMAIN self
         THEN Returned(value \in self[key], [self EXCEPT ![key] = @ \ {value}])
         ELSE Returned(FALSE, self)

(***************************************************************************)
(* The state machine                                                       *)
(***************************************************************************)

IsPathIndex == component \in {"BTreeMapOfFileLenToSetOfPathBuf",
                              "HashMapOfFileLenToSetOfPathBuf"}

\* Every filesystem over Paths: each path is missing or has some length.
FileSystems == UNION {[ps -> Lens] : ps \in SUBSET Paths}

Init ==
    /\ component \in Components
    /\ subject = EmptyMap
    /\ files \in IF IsPathIndex THEN FileSystems ELSE {[p \in {} |-> 0]}
    /\ halted = FALSE
    /\ last = [op |-> "none"]
    /\ prev_insert = None
    /\ ever_keys = {}
    /\ scenario = [tag |-> "fresh"]

\* History of a multi-map call: who was called with what, and what came back.
Called(op, key, value, r) ==
    /\ subject' = r.self
    /\ last' = [op |-> op, key |-> key, value |-> value,
                outcome |-> "returned", ret |-> Some(r.ret), pre |-> subject]
    /\ prev_insert' = IF last.op = "sub_insert" THEN <<last.key, last.value>> ELSE None
    /\ ever_keys' = IF op = "sub_insert" THEN ever_keys \cup {key} ELSE ever_keys
    /\ UNCHANGED <<component, files, halted, scenario>>

BTreeSubContains ==
    /\ component = "BTreeMapToSet" /\ ~halted
    /\ \E key \in Keys, value \in Values :
          Called("sub_contains", key, value, BTree_sub_contains(subject, key, value))

BTreeSubInsert ==
    /\ component = "BTreeMapToSet" /\ ~halted
    /\ \E key \in Keys, value \in Values :
          Called("sub_insert", key, value, BTree_sub_insert(subject, key, value))

BTreeSubRemove ==
    /\ component = "BTreeMapToSet" /\ ~halted
    /\ \E key \in Keys, value \in Values :
          Called("sub_remove", key, value, BTree_sub_remove(subject, key, value))

HashSubContains ==
    /\ component = "HashMapToSet" /\ ~halted
    /\ \E key \in Keys, value \in Values :
          Called("sub_contains", key, value, Hash_sub_contains(subject, key, value))

HashSubInsert ==
    /\ component = "HashMapToSet" /\ ~halted
    /\ \E key \in Keys, value \in Values :
          Called("sub_insert", key, value, Hash_sub_insert(subject, key, value))

HashSubRemove ==
    /\ component = "HashMapToSet" /\ ~halted
    /\ \E key \in Keys, value \in Values :
          Called("sub_remove", key, value, Hash_sub_remove(subject, key, value))

\* History of a path-index call.  `meta` is what the metadata query gave.
CalledPath(op, value, r) ==
    LET meta == fs_metadata_len(files, value) IN
    /\ subject' = r.self
    /\ halted' = (r.outcome = "panic")
    /\ last' = [op |-> op, value |-> value, meta |-> meta,
                outcome |-> r.outcome, ret |-> r.ret, pre |-> subject]
    /\ ever_keys' = IF op = "sub_insert_path" /\ meta # None
                    THEN ever_keys \cup {meta[1]} ELSE ever_keys
    /\ scenario' =
          IF r.outcome = "panic" \/ op = "sub_contains_path" THEN scenario
          ELSE IF op = "sub_insert_path" /\ scenario.tag = "fresh"
               THEN [tag |-> "sole", path |-> value]
               ELSE [tag |-> "other"]
    /\ UNCHANGED <<component, files, prev_insert>>

BTreeSubContainsPath ==
    /\ component = "BTreeMapOfFileLenToSetOfPathBuf" /\ ~halted
    /\ \E value \in Paths :
          CalledPath("sub_contains_path", value, BTree_sub_contains_path(subject, files, value))

BTreeSubInsertPath ==
    /\ component = "BTreeMapOfFileLenToSetOfPathBuf" /\ ~halted
    /\ \E value \in Paths :
          CalledPath("sub_insert_path", value, BTree_sub_insert_path(subject, files, value))

BTreeSubRemovePath ==
    /\ component = "BTreeMapOfFileLenToSetOfPathBuf" /\ ~halted
    /\ \E value \in Paths :
          CalledPath("sub_remove_path", value, BTree_sub_remove_path(subject, files, value))

HashSubContainsPath ==
    /\ component = "HashMapOfFileLenToSetOfPathBuf" /\ ~halted
    /\ \E value \in Paths :
          CalledPath("sub_contains_path", value, Hash_sub_contains_path(subject, files, value))

HashSubInsertPath ==
    /\ component = "HashMapOfFileLenToSetOfPathBuf" /\ ~halted
    /\ \E value \in Paths :
          CalledPath("sub_insert_path", value, Hash_sub_insert_path(subject, files, value))

HashSubRemovePath ==
    /\ component = "HashMapOfFileLenToSetOfPathBuf" /\ ~halted
    /\ \E value \in Paths :
          CalledPath("sub_remove_path", value, Hash_sub_remove_path(subject, files, value))

\* The environment, between two calls: a file is written (created, or its
\* length changed) or removed.  Once a file changes after the first insert,
\* lengths are no longer "held fixed".
FsChanged ==
    /\ scenario' = IF scenario.tag = "fresh" THEN scenario ELSE [tag |-> "other"]
    /\ UNCHANGED <<component, subject, halted, last, prev_insert, ever_keys>>

WriteFile ==
    /\ IsPathIndex /\ ~halted
    /\ \E p \in Paths, n \in Lens :
          /\ fs_metadata_len(files, p) # Some(n)
          /\ files' = [q \in DOMAIN files \cup {p} |-> IF q = p THEN n ELSE files[q]]
    /\ FsChanged

RemoveFile ==
    /\ IsPathIndex /\ ~halted
    /\ \E p \in DOMAIN files :
          files' = [q \in DOMAIN files \ {p} |-> files[q]]
    /\ FsChanged

Next ==
    \/ BTreeSubContainsPath
    \/ BTreeSubInsertPath
    \/ BTreeSubRemovePath
    \/ HashSubContainsPath
    \/ HashSubInsertPath
    \/ HashSubRemovePath
    \/ WriteFile
    \/ RemoveFile
    \/ BTreeSubContains
    \/ BTreeSubInsert
    \/ BTreeSubRemove
    \/ HashSubContains
    \/ HashSubInsert
    \/ HashSubRemove

Spec == Init /\ [][Next]_vars

(***************************************************************************)
(* Properties                                                              *)
(***************************************************************************)

IsMultiMap == component \in {"BTreeMapToSet", "HashMapToSet"}

PathOps == {"sub_contains_path", "sub_insert_path", "sub_remove_path"}

\* What the subject's own sub_contains answers on map m.
SubjectContains(m, key, value) ==
    IF component = "BTreeMapToSet"
    THEN BTree_sub_contains(m, key, value).ret
    ELSE Hash_sub_contains(m, key, value).ret

\* What the subject's own sub_contains_path answers on index m.
SubjectContainsPath(m, fs, value) ==
    IF component = "BTreeMapOfFileLenToSetOfPathBuf"
    THEN BTree_sub_contains_path(m, fs, value)
    ELSE Hash_sub_contains_path(m, fs, value)

\* The key the last call worked under (a path-index call derives it).
LastKey == IF last.op \in PathOps THEN last.meta[1] ELSE last.key

\* C1: in either multi-map, right after sub_insert(k, v) returns,
\* sub_contains(k, v) is true, whatever the map held before.
C1_InsertThenContains ==
    last.op = "sub_insert" => SubjectContains(subject, last.key, last.value)

C1_Witness ==
    /\ last.op = "sub_insert"
    /\ last.pre # EmptyMap
    /\ last.key \notin DOMAIN last.pre
    /\ SubjectContains(subject, last.key, last.value)

\* C2: in either multi-map, sub_remove(k, v) right after sub_insert(k, v)
\* returns true, and sub_contains(k, v) is then false.
C2_InsertRemoveThenAbsent ==
    (last.op = "sub_remove" /\ prev_insert = <<last.key, last.value>>)
        => /\ last.ret = Some(TRUE)
           /\ ~SubjectContains(subject, last.key, last.value)

C2_Witness ==
    /\ last.op = "sub_remove"
    /\ prev_insert = <<last.key, last.value>>
    /\ last.ret = Some(TRUE)
    /\ Cardinality(last.pre[last.key]) > 1

\* C3: in either multi-map, sub_remove(k, v) on a key no insert was ever
\* called with returns false and leaves the whole map as it was (no entry
\* for k is created).
C3_RemoveNeverInsertedKey ==
    (last.op = "sub_remove" /\ last.key \notin ever_keys)
        => /\ last.ret = Some(FALSE)
           /\ subject = last.pre
           /\ last.key \notin DOMAIN subject

C3_Witness ==
    /\ last.op = "sub_remove"
    /\ last.key \notin ever_keys
    /\ subject # EmptyMap
    /\ last.ret = Some(FALSE)

\* C4: in either multi-map, the second of two consecutive sub_insert(k, v)
\* calls returns false and leaves the map as the first call left it.
C4_InsertIdempotent ==
    (last.op = "sub_insert" /\ prev_insert = <<last.key, last.value>>)
        => /\ last.ret = Some(FALSE)
           /\ subject = last.pre

C4_Witness ==
    /\ last.op = "sub_insert"
    /\ prev_insert = <<last.key, last.value>>
    /\ last.ret = Some(FALSE)
    /\ Cardinality(DOMAIN subject) > 1

\* C5: in all four components no call deletes a key: every key present before
\* a call is present after it, every key ever inserted under is still a key,
\* and a remove that takes the last value of a key leaves the key mapped to
\* the empty set.
C5_KeysNeverPruned ==
    /\ ever_keys \subseteq DOMAIN subject
    /\ last.op # "none" => DOMAIN last.pre \subseteq DOMAIN subject
    /\ (last.op \in {"sub_remove", "sub_remove_path"} /\ last.ret = Some(TRUE))
          => /\ LastKey \in DOMAIN subject
             /\ last.pre[LastKey] = {last.value} => subject[LastKey] = {}

C5_Witness ==
    /\ last.op = "sub_remove_path"
    /\ last.ret = Some(TRUE)
    /\ LastKey \in DOMAIN subject
    /\ subject[LastKey] = {}

\* C6 as stated: a path-index call on a path whose metadata cannot be obtained
\* hands an error value back to its caller, and the program goes on.
C6_Original ==
    (last.op \in PathOps /\ last.meta = None)
        => last.outcome = "error" /\ ~halted

\* C6 as amended: a path-index call on a path whose metadata cannot be
\* obtained panics (expect("metadata")): it returns nothing to its caller,
\* neither an error value nor a default boolean, and the caller unwinds.
C6_MetadataFailurePanics ==
    (last.op \in PathOps /\ last.meta = None)
        => last.outcome = "panic" /\ last.ret = None /\ halted

C6_Witness ==
    /\ last.op = "sub_insert_path"
    /\ last.meta = None
    /\ last.outcome = "panic"
    /\ subject # EmptyMap

C8_ContainsIsPureMembership ==
    last.op = "sub_contains"
        => /\ last.outcome = "returned"
           /\ last.ret = Some(last.key \in DOMAIN last.pre /\ last.value \in last.pre[last.key])
           /\ subject = last.pre

C8_Witness ==
    /\ last.op = "sub_contains"
    /\ last.key \in DOMAIN last.pre
    /\ last.value \notin last.pre[last.key]
    /\ last.pre[last.key] # {}
    /\ last.ret = Some(FALSE)

\* C9: in either multi-map, sub_insert(k, v) returns true exactly when
\* sub_contains(k, v) was false just before the call; an insert under a key
\* that was absent therefore returns true.
C9_InsertReturnsNewness ==
    last.op = "sub_insert"
        => /\ last.ret = Some(~SubjectContains(last.pre, last.key, last.value))
           /\ last.key \notin DOMAIN last.pre => last.ret = Some(TRUE)

C9_Witness ==
    /\ last.op = "sub_insert"
    /\ last.key \in DOMAIN last.pre
    /\ last.value \notin last.pre[last.key]
    /\ last.ret = Some(TRUE)

\* C10: in either multi-map, sub_insert(k, v) touches key k only: k's set is
\* its previous set (empty if k was absent) plus v, every other key keeps its
\* set, and no other key appears.
C10_InsertFrame ==
    last.op = "sub_insert"
        => /\ DOMAIN subject = DOMAIN last.pre \cup {last.key}
           /\ subject[last.key] =
                (IF last.key \in DOMAIN last.pre THEN last.pre[last.key] ELSE {})
                    \cup {last.value}
           /\ \A k \in DOMAIN last.pre \ {last.key} : subject[k] = last.pre[k]

\* Two keys, each with a two-element set, the second set just completed.
C10_Witness ==
    /\ last.op = "sub_insert"
    /\ last.ret = Some(TRUE)
    /\ DOMAIN subject = {1, 2}
    /\ subject[1] = {1, 2}
    /\ subject[2] = {1, 2}
    /\ last.key = 2

\* The multi-map operation of the subject's kind (ordered or hashed) that a
\* path-index operation is said to delegate to.
GenericOp(op, m, key, value) ==
    IF component = "BTreeMapOfFileLenToSetOfPathBuf"
    THEN CASE op = "sub_contains_path" -> BTree_sub_contains(m, key, value)
           [] op = "sub_insert_path" -> BTree_sub_insert(m, key, value)
           [] op = "sub_remove_path" -> BTree_sub_remove(m, key, value)
    ELSE CASE op = "sub_contains_path" -> Hash_sub_contains(m, key, value)
           [] op = "sub_insert_path" -> Hash_sub_insert(m, key, value)
           [] op = "sub_remove_path" -> Hash_sub_remove(m, key, value)

\* The buckets other than the last call's own that hold the last call's path.
StaleBuckets(m) ==
    {k \in DOMAIN m : k # last.meta[1] /\ last.value \in m[k]}

\* The last call found its path stored under an older length only: the path
\* sits in a bucket of another length and not in the bucket of the length the
\* call has just read.
StaleCase ==
    /\ last.op \in {"sub_remove_path", "sub_contains_path"}
    /\ last.meta # None
    /\ StaleBuckets(last.pre) # {}
    /\ ~(last.meta[1] \in DOMAIN last.pre /\ last.value \in last.pre[last.meta[1]])

\* C11: every path-index call on a path with queryable metadata returns what
\* the multi-map operation of the same name returns for (len, path) on the
\* index as it was, and leaves the index as that operation leaves it, where
\* len is the file's length read during that very call.
C11_PathOpsRefineMultiMap ==
    (last.op \in PathOps /\ last.meta # None)
        => LET g == GenericOp(last.op, last.pre, last.meta[1], last.value)
           IN  /\ last.outcome = "returned"
               /\ last.ret = Some(g.ret)
               /\ subject = g.self

\* A remove that succeeds under the present length while the path is still
\* stored under an older one.
C11_Witness ==
    /\ last.op = "sub_remove_path"
    /\ last.meta # None
    /\ last.ret = Some(TRUE)
    /\ StaleBuckets(subject) # {}

\* C12: when a path is stored under the length L1 it was inserted with, its
\* file now has another length L2 and the path is not stored under L2,
\* sub_remove_path and sub_contains_path both return false, the index is left
\* unchanged and the path is still in the bucket of L1.
C12_StaleLengthMisses ==
    StaleCase
        => /\ last.ret = Some(FALSE)
           /\ subject = last.pre
           /\ StaleBuckets(subject) = StaleBuckets(last.pre)
           /\ SubjectContainsPath(subject, last.value :> last.meta[1], last.value).ret
                 = Some(FALSE)

C12_Witness ==
    /\ StaleCase
    /\ last.op = "sub_remove_path"
    /\ last.ret = Some(FALSE)
    /\ \E k \in DOMAIN subject : last.value \in subject[k]

\* C13: when the metadata query fails inside sub_insert_path or
\* sub_remove_path, the index is exactly as it was before the call.
C13_FailedQueryMutatesNothing ==
    (last.op \in {"sub_insert_path", "sub_remove_path"} /\ last.meta = None)
        => subject = last.pre

C13_Witness ==
    /\ last.op = "sub_remove_path"
    /\ last.meta = None
    /\ halted
    /\ \E k \in DOMAIN subject : last.value \in subject[k]

====
